---- MODULE Spec2Model ----
(***************************************************************************)
(* State-machine model of StreamController (server/src/controllers/        *)
(* stream.controller.ts): the HLS play handler, the playlist planner       *)
(* (generatePreGeneratedM3U8...), the transcode orchestrator (generateHLS),*)
(* the subtitle post-processor (patchVttWithTimestampMap) and the codec    *)
(* inspector (getFileCodecInfoFromStream).                                 *)
(*                                                                         *)
(* Text is modelled as a sequence of tokens (TLA+ strings); a number       *)
(* rendered into text is the sequence of its decimal digits.  A missing    *)
(* (undefined / empty) text is the empty sequence.  File names are         *)
(* relative to outputDir.  Durations are counted in ticks, TicksPerSecond  *)
(* ticks to the second, so that fractional durations are covered.          *)
(***************************************************************************)
EXTENDS Integers, Sequences, FiniteSets, TLC

VARIABLES
    req,         \* request -> what it asks for (route parameters, method, Range)
    rangeCursor, \* request -> the read cursor opened to stream its byte range
    media,       \* what ffprobe reports for the torrent file (fixed per run)
    dirExists,   \* existsSync(outputDir)
    disk,        \* file name -> content, the files inside outputDir
    pc,          \* request -> position inside play()
    resp,        \* request -> response sent (status 0: none yet)
    proc,        \* job -> state of its spawned ffmpeg process
    args,        \* job -> argument list handed to spawn
    progress,    \* job -> number of segments its process has written
    cursorErr,   \* jobs whose read cursor has emitted 'error'
    killSent,    \* jobs whose process received kill('SIGKILL')
    mkdirCount,  \* number of mkdirSync(outputDir) calls
    probeCount,  \* number of ffprobe runs
    spawnCount,  \* number of generateHLS calls (encoding pipelines started)
    patchCount   \* subtitle index -> number of patchVttWithTimestampMap calls

vars == <<req, rangeCursor, media, dirExists, disk, pc, resp, proc, args, progress, cursorErr,
          killSent, mkdirCount, probeCount, spawnCount, patchCount>>

(***************************************************************************)
(* Bounds of the model                                                     *)
(***************************************************************************)
MaxReqs == 2
MaxAudio == 2
MaxSubs == 2
TicksPerSecond == 2
MaxDuration == 45
MaxLines == 3
MaxPatches == 2
MaxLength == 2

(***************************************************************************)
(* Program constants                                                       *)
(***************************************************************************)
hlsTime == 10
FallbackDuration == 3600

(***************************************************************************)
(* Text helpers                                                            *)
(***************************************************************************)
DigitChars == <<"0", "1", "2", "3", "4", "5", "6", "7", "8", "9">>

RECURSIVE NumToString(_)
NumToString(n) ==
    IF n < 10 THEN <<DigitChars[n + 1]>>
    ELSE NumToString(n \div 10) \o <<DigitChars[(n % 10) + 1]>>

RECURSIVE padStart(_, _, _)
padStart(s, width, fill) ==
    IF Len(s) >= width THEN s ELSE padStart(<<fill>> \o s, width, fill)

\* ffmpeg's expansion of %03d in -hls_segment_filename
Printf03d(n) ==
    LET d == NumToString(n)
    IN  IF Len(d) = 1 THEN <<"0", "0">> \o d
        ELSE IF Len(d) = 2 THEN <<"0">> \o d
        ELSE d

RECURSIVE ExpandPattern(_, _)
ExpandPattern(pattern, n) ==
    IF pattern = <<>> THEN <<>>
    ELSE (IF Head(pattern) = "%03d" THEN Printf03d(n) ELSE <<Head(pattern)>>)
         \o ExpandPattern(Tail(pattern), n)

\* a || b on texts: undefined and '' are both falsy
OrElse(a, b) == IF a = <<>> THEN b ELSE a

\* String.prototype.includes
Includes(s, sub) ==
    \E i \in 1..(Len(s) - Len(sub) + 1) : SubSeq(s, i, i + Len(sub) - 1) = sub

\* Math.ceil(duration / hlsTime) with duration given in ticks
CeilDiv(a, b) == (a + b - 1) \div b

\* variant: Math.floor in place of Math.ceil
segmentCountFloor(durationTicks) == durationTicks \div (hlsTime * TicksPerSecond)

segmentCount(durationTicks) == CeilDiv(durationTicks, hlsTime * TicksPerSecond)

\* Math.round(duration) with duration given in ticks
roundSeconds(durationTicks) ==
    (2 * durationTicks + TicksPerSecond) \div (2 * TicksPerSecond)

\* `${duration}`: the seconds, and the remaining ticks when there are any
DurationText(durationTicks) ==
    NumToString(durationTicks \div TicksPerSecond)
    \o (IF durationTicks % TicksPerSecond = 0 THEN <<>>
        ELSE <<".">> \o NumToString(durationTicks % TicksPerSecond)
             \o <<"/">> \o NumToString(TicksPerSecond))

(***************************************************************************)
(* File names inside outputDir                                             *)
(***************************************************************************)
MasterName == <<"master.m3u8">>
VideoPlaylistName == <<"video.m3u8">>
AudioPlaylistName(index) == <<"audio_">> \o NumToString(index) \o <<".m3u8">>
SubtitlePlaylistName(index) == <<"subtitles_">> \o NumToString(index) \o <<".m3u8">>
VttName(index) == <<"subtitles_">> \o NumToString(index) \o <<".vtt">>

\* variants of the polled file name: one segment too early, one that a
\* five-segment source never gets
ThresholdSegmentNameEarly == <<"segment_", "0", "0", "3", ".ts">>
ThresholdSegmentNameLate == <<"segment_", "0", "0", "5", ".ts">>

\* the file the readiness gate polls for: 'segment_004.ts'
ThresholdSegmentName == <<"segment_", "0", "0", "4", ".ts">>

(***************************************************************************)
(* Codec Inspector: getFileCodecInfoFromStream                             *)
(***************************************************************************)
ForcedTokens == {"forced", "Forced", "FORCED"}

\* /forced/i.test(title)
IsForced(title) == \E i \in 1..Len(title) : title[i] \in ForcedTokens

getFileCodecInfoFromStream(m) ==
    [ videoCodec   |-> m.videoCodec,
      pixFmt       |-> m.pixFmt,
      subtitles    |-> [ k \in 1..Len(m.subs) |->
                           [ index    |-> k - 1,
                             title    |-> OrElse(m.subs[k].title, NumToString(k)),
                             language |-> OrElse(m.subs[k].language, <<"unknown">>),
                             forced   |-> IsForced(m.subs[k].title),
                             default  |-> (k - 1 = 0) ] ],
      audioStreams |-> [ k \in 1..Len(m.audio) |->
                           [ index    |-> k - 1,
                             name     |-> OrElse(m.audio[k].title, NumToString(k)),
                             language |-> OrElse(m.audio[k].language, <<"unknown">>),
                             default  |-> (k - 1 = 0),
                             codec    |-> OrElse(m.audio[k].codec, <<"unknown">>) ] ],
      duration     |-> IF m.duration = <<>> THEN FallbackDuration * TicksPerSecond
                       ELSE m.duration[1] ]

(***************************************************************************)
(* Playlist Planner                                                        *)
(***************************************************************************)
Line(tag, value) == [tag |-> tag, value |-> value]

PlaylistHeader(targetDuration) ==
    << Line("#EXTM3U", <<>>),
       Line("#EXT-X-VERSION:", <<"3">>),
       Line("#EXT-X-TARGETDURATION:", NumToString(targetDuration)),
       Line("#EXT-X-MEDIA-SEQUENCE:", <<"0">>) >>

\* the loop `for (let i = 0; i < numberOfSegments; i++)`: iteration i pushes
\* lines 2i+1 and 2i+2 of the result
SegmentEntries(prefix, suffix, numberOfSegments) ==
    [ k \in 1..(2 * numberOfSegments) |->
        IF k % 2 = 1
        THEN Line("#EXTINF:", NumToString(hlsTime) \o <<",">>)
        ELSE Line("uri", prefix \o padStart(NumToString((k \div 2) - 1), 3, "0")
                         \o suffix) ]

VideoPlaylist(codecInfo) ==
    PlaylistHeader(hlsTime)
    \o SegmentEntries(<<"segment_">>, <<".ts">>, segmentCount(codecInfo.duration))
    \o << Line("#EXT-X-ENDLIST", <<>>) >>

AudioPlaylist(codecInfo, audioStream) ==
    PlaylistHeader(hlsTime)
    \o SegmentEntries(<<"audio_">> \o NumToString(audioStream.index) \o <<"_">>,
                      <<".ts">>, segmentCount(codecInfo.duration))
    \o << Line("#EXT-X-ENDLIST", <<>>) >>

SubtitlePlaylist(codecInfo, subtitle) ==
    PlaylistHeader(roundSeconds(codecInfo.duration))
    \o << Line("#EXTINF:", DurationText(codecInfo.duration) \o <<",">>),
          Line("uri", VttName(subtitle.index)),
          Line("#EXT-X-ENDLIST", <<>>) >>

YesNo(b) == IF b THEN <<"YES">> ELSE <<"NO">>

\* title + language + forced ? ' (Forced)' : ''   (the sum is the condition)
SubtitleEntryName(subtitle) ==
    LET cond == subtitle.title \o subtitle.language
                \o <<IF subtitle.forced THEN "true" ELSE "false">>
    IN  IF cond # <<>> THEN <<" (Forced)">> ELSE <<>>

SubtitleEntry(subtitle) ==
    [ tag        |-> "#EXT-X-MEDIA:",
      type       |-> "SUBTITLES",
      groupId    |-> <<>>,
      name       |-> SubtitleEntryName(subtitle),
      language   |-> subtitle.language,
      default    |-> YesNo(subtitle.default),
      autoselect |-> <<"NO">>,
      forced     |-> YesNo(subtitle.forced),
      uri        |-> <<"hls/">> \o SubtitlePlaylistName(subtitle.index) ]

AudioEntry(audio) ==
    [ tag        |-> "#EXT-X-MEDIA:",
      type       |-> "AUDIO",
      groupId    |-> <<>>,
      name       |-> audio.name,
      language   |-> audio.language,
      default    |-> YesNo(audio.default),
      autoselect |-> <<"YES">>,
      forced     |-> <<>>,
      uri        |-> <<"hls/">> \o AudioPlaylistName(audio.index) ]

\* variant: the audio loop placed before the subtitle loop
MasterPlaylistAudioFirst(codecInfo) ==
    << Line("#EXTM3U", <<>>) >>
    \o [ k \in 1..Len(codecInfo.audioStreams) |-> AudioEntry(codecInfo.audioStreams[k]) ]
    \o [ k \in 1..Len(codecInfo.subtitles) |-> SubtitleEntry(codecInfo.subtitles[k]) ]
    \o << Line("#EXT-X-STREAM-INF:", <<"SUBTITLES=\"\",AUDIO=\"\"">>),
          Line("uri", <<"hls/">> \o VideoPlaylistName) >>

MasterPlaylist(codecInfo) ==
    << Line("#EXTM3U", <<>>) >>
    \o [ k \in 1..Len(codecInfo.subtitles) |-> SubtitleEntry(codecInfo.subtitles[k]) ]
    \o [ k \in 1..Len(codecInfo.audioStreams) |-> AudioEntry(codecInfo.audioStreams[k]) ]
    \o << Line("#EXT-X-STREAM-INF:", <<"SUBTITLES=\"\",AUDIO=\"\"">>),
          Line("uri", <<"hls/">> \o VideoPlaylistName) >>

\* fs.promises.writeFile(path, content)
writeFile(d, name, content) ==
    [ n \in DOMAIN d \cup {name} |-> IF n = name THEN content ELSE d[n] ]

RECURSIVE WriteAudioPlaylists(_, _, _)
WriteAudioPlaylists(d, codecInfo, k) ==
    IF k > Len(codecInfo.audioStreams) THEN d
    ELSE WriteAudioPlaylists(
             writeFile(d, AudioPlaylistName(codecInfo.audioStreams[k].index),
                       AudioPlaylist(codecInfo, codecInfo.audioStreams[k])),
             codecInfo, k + 1)

RECURSIVE WriteSubtitlePlaylists(_, _, _)
WriteSubtitlePlaylists(d, codecInfo, k) ==
    IF k > Len(codecInfo.subtitles) THEN d
    ELSE WriteSubtitlePlaylists(
             writeFile(d, SubtitlePlaylistName(codecInfo.subtitles[k].index),
                       SubtitlePlaylist(codecInfo, codecInfo.subtitles[k])),
             codecInfo, k + 1)

generatePreGeneratedM3U8Audio(d, codecInfo) == WriteAudioPlaylists(d, codecInfo, 1)

generatePreGeneratedM3U8Subtitle(d, codecInfo) == WriteSubtitlePlaylists(d, codecInfo, 1)

generatePreGeneratedM3U8Video(d, codecInfo) ==
    writeFile(d, VideoPlaylistName, VideoPlaylist(codecInfo))

generatePreGeneratedM3U8Master(d, codecInfo) ==
    writeFile(d, MasterName, MasterPlaylist(codecInfo))

(***************************************************************************)
(* Subtitle Post-Processor: patchVttWithTimestampMap                       *)
(***************************************************************************)
TimestampMapLine == "X-TIMESTAMP-MAP=LOCAL:00:00:00.000,MPEGTS:135000"

\* the lines a subtitle file is made of, and line.startsWith('WEBVTT')
VttLines == {"WEBVTT", "WEBVTT - subtitles", TimestampMapLine, "00:01.000 --> 00:02.000"}
startsWithWEBVTT(line) == line \in {"WEBVTT", "WEBVTT - subtitles"}

\* lines.findIndex(pred): 1-based position of the first match, 0 when none
findIndex(lines) ==
    IF \E i \in 1..Len(lines) : startsWithWEBVTT(lines[i])
    THEN CHOOSE i \in 1..Len(lines) :
             /\ startsWithWEBVTT(lines[i])
             /\ \A k \in 1..(i - 1) : ~startsWithWEBVTT(lines[k])
    ELSE 0

\* lines.splice(at, 0, item) with a 0-based position `at`
splice(lines, at, item) ==
    SubSeq(lines, 1, at) \o <<item>> \o SubSeq(lines, at + 1, Len(lines))

\* variant: the directive is spliced in at the header's own position
patchLinesBeforeHeader(lines) ==
    LET headerIndex == findIndex(lines) - 1
    IN  IF headerIndex # -1 THEN splice(lines, headerIndex, TimestampMapLine)
        ELSE lines

\* the lines written back by patchVttWithTimestampMap for a readable file
patchLines(lines) ==
    LET headerIndex == findIndex(lines) - 1
    IN  IF headerIndex # -1 THEN splice(lines, headerIndex + 1, TimestampMapLine)
        ELSE lines

\* the whole call: an unreadable (absent) file raises inside try and is logged
patchVttWithTimestampMap(d, vttPath) ==
    IF vttPath \in DOMAIN d THEN writeFile(d, vttPath, patchLines(d[vttPath])) ELSE d

(***************************************************************************)
(* Transcode Orchestrator: generateHLS                                     *)
(***************************************************************************)
VideoJob == [t |-> "video", i |-> 0]
AudioJob(index) == [t |-> "audio", i |-> index]
SubtitleJob(index) == [t |-> "sub", i |-> index]

Jobs(codecInfo) ==
    {VideoJob}
    \cup {AudioJob(codecInfo.audioStreams[k].index) : k \in 1..Len(codecInfo.audioStreams)}
    \cup {SubtitleJob(codecInfo.subtitles[k].index) : k \in 1..Len(codecInfo.subtitles)}

videoCodecArgs(codecInfo) ==
    IF codecInfo.videoCodec = <<"h264">> /\ ~Includes(codecInfo.pixFmt, <<"1", "0">>)
    THEN << <<"-c:v">>, <<"copy">> >>
    ELSE << <<"-c:v">>, <<"libx264">>, <<"-preset">>, <<"ultrafast">> >>

hlsArgs(codecInfo) ==
    << <<"-i">>, <<"pipe:0">> >>
    \o videoCodecArgs(codecInfo)
    \o << <<"-an">>, <<"-g">>, <<"250">>, <<"-start_number">>, <<"0">>,
          <<"-hls_time">>, NumToString(hlsTime), <<"-hls_list_size">>, <<"0">>,
          <<"-hls_segment_filename">>, <<"segment_", "%03d", ".ts">>,
          <<"-hls_base_url">>, <<>>,
          <<"-f">>, <<"hls">>, <<"-hls_playlist_type">>, <<"vod">>,
          <<"-tune">>, <<"zerolatency">>,
          VideoPlaylistName >>

\* variant: output names numbered from one while -map stays zero-based
audioArgsOneBased(audio) ==
    << <<"-i">>, <<"pipe:0">>, <<"-map">>, <<"0:a:">> \o NumToString(audio.index) >>
    \o (IF audio.codec = <<"aac">> THEN << <<"-c:a">>, <<"copy">> >>
        ELSE << <<"-c:a">>, <<"aac">> >>)
    \o << <<"-ac">>, <<"2">>, <<"-hls_list_size">>, <<"0">>,
          <<"-hls_time">>, NumToString(hlsTime),
          <<"-hls_segment_filename">>,
          <<"audio_">> \o NumToString(audio.index + 1) \o <<"_", "%03d", ".ts">>,
          <<"-f">>, <<"hls">>, <<"-hls_playlist_type">>, <<"vod">>,
          <<"-tune">>, <<"zerolatency">>,
          <<"audio_">> \o NumToString(audio.index + 1) \o <<".m3u8">> >>

audioArgs(audio) ==
    << <<"-i">>, <<"pipe:0">>, <<"-map">>, <<"0:a:">> \o NumToString(audio.index) >>
    \o (IF audio.codec = <<"aac">> THEN << <<"-c:a">>, <<"copy">> >>
        ELSE << <<"-c:a">>, <<"aac">> >>)
    \o << <<"-ac">>, <<"2">>, <<"-hls_list_size">>, <<"0">>,
          <<"-hls_time">>, NumToString(hlsTime),
          <<"-hls_segment_filename">>,
          <<"audio_">> \o NumToString(audio.index) \o <<"_", "%03d", ".ts">>,
          <<"-f">>, <<"hls">>, <<"-hls_playlist_type">>, <<"vod">>,
          <<"-tune">>, <<"zerolatency">>,
          <<"audio_">> \o NumToString(audio.index) \o <<".m3u8">> >>

subtitleArgs(subtitle) ==
    << <<"-i">>, <<"pipe:0">>, <<"-map">>, <<"0:s:">> \o NumToString(subtitle.index),
       <<"-scodec">>, <<"webvtt">>,
       <<"subtitles_">> \o NumToString(subtitle.index) \o <<".vtt">> >>

\* the argument list spawn() receives for each job of the session
JobArgs(codecInfo) ==
    [ j \in Jobs(codecInfo) |->
        IF j.t = "video" THEN hlsArgs(codecInfo)
        ELSE IF j.t = "audio" THEN audioArgs(codecInfo.audioStreams[j.i + 1])
        ELSE subtitleArgs(codecInfo.subtitles[j.i + 1]) ]

\* the process the 'error' handler of job j's read cursor kills
KillTarget(j) == IF j.t = "sub" THEN VideoJob ELSE j

\* what the encoder does with its arguments: the value following an option,
\* and the output file (the last argument)
OptionValue(a, option) ==
    a[(CHOOSE k \in 1..Len(a) : a[k] = <<option>>) + 1]
OutputFile(a) == a[Len(a)]

(***************************************************************************)
(* State                                                                   *)
(***************************************************************************)
Reqs == 1..MaxReqs

CodecInfo == getFileCodecInfoFromStream(media)

existsSync(name) == name \in DOMAIN disk

\* variant: the directory is created under another path than the one tested
mkdirSyncElsewhere(existed) == existed

\* the state of the directory after mkdirSync(outputDir, { recursive: true })
mkdirSync(existed) == TRUE

NoHeaders ==
    [ contentLength |-> <<>>, contentRange |-> <<>>, contentType |-> <<>>,
      acceptRanges |-> <<>> ]

\* Response(status, body, headers)
Response(status, body, headers) == [status |-> status, body |-> body, headers |-> headers]

NoResponse == Response(0, <<>>, NoHeaders)

\* the Range header of a request: absent, not a byte range, or bytes=start-end
NoRange == [form |-> "missing", start |-> 0, end |-> 0]

Request(type, method, range, file) ==
    [ type |-> type, method |-> method, range |-> range,
      source |-> file.source, fileValid |-> file.fileValid, length |-> file.length ]

\* what infoHash and fileIdx of a request name: a torrent that is found (in the
\* store or at the torrent source) or not, an index the torrent has or not, and
\* the length of that file
File(source, fileValid, length) ==
    [source |-> source, fileValid |-> fileValid, length |-> length]

\* the request every HLS client sends: GET ../hls of a file the torrent has
HlsGet == Request("hls", "GET", NoRange, File("found", TRUE, 1))

EmptyDisk == [n \in {} |-> <<>>]

\* segments the encoder of a track produces before it ends
EncoderSegments == segmentCount(CodecInfo.duration)

\* what ffmpeg writes for a subtitle track
VttOutputs == { <<"WEBVTT", "", "00:01.000 --> 00:02.000">> }

\* requests q, request r about to run the step of play() named start[r]
InitWith(q, start, m, existed, d) ==
    /\ req = q
    /\ rangeCursor = [r \in Reqs |-> <<>>]
    /\ media = m
    /\ dirExists = existed
    /\ disk = d
    /\ pc = start
    /\ resp = [r \in Reqs |-> NoResponse]
    /\ proc = [j \in Jobs(getFileCodecInfoFromStream(m)) |-> "none"]
    /\ args = [j \in Jobs(getFileCodecInfoFromStream(m)) |-> <<>>]
    /\ progress = [j \in Jobs(getFileCodecInfoFromStream(m)) |-> 0]
    /\ cursorErr = {}
    /\ killSent = {}
    /\ mkdirCount = 0
    /\ probeCount = 0
    /\ spawnCount = 0
    /\ patchCount = [i \in 0..(Len(m.subs) - 1) |-> 0]

\* HLS GET requests whose torrent and file have been looked up
InitFor(m, existed, d) ==
    InitWith([r \in Reqs |-> HlsGet], [r \in Reqs |-> "arrived"], m, existed, d)

Track(codec, title) == [codec |-> codec, title |-> title, language |-> <<>>]

SessionSource(seconds, audio, subs) ==
    [ duration   |-> <<seconds * TicksPerSecond>>,
      videoCodec |-> <<"h264">>,
      pixFmt     |-> <<"y", "u", "v", "4", "2", "0", "p">>,
      audio      |-> audio,
      subs       |-> subs ]

\* sources served in the session specification: two of five segments, with an
\* audio track or with a subtitle track, one of two segments with both, and
\* one of a single segment with two subtitle tracks
SessionMedia ==
    { SessionSource(45, << Track(<<"aac">>, <<>>) >>, <<>>),
      SessionSource(45, <<>>, << Track(<<"subrip">>, <<>>) >>),
      SessionSource(15, << Track(<<"aac">>, <<>>) >>, << Track(<<"subrip">>, <<>>) >>),
      SessionSource(5, <<>>, << Track(<<"subrip">>, <<>>), Track(<<"subrip">>, <<>>) >>) }

Init == \E m \in SessionMedia : InitFor(m, FALSE, EmptyDisk)

(***************************************************************************)
(* play(), HLS GET                                                         *)
(***************************************************************************)
\* if (!existsSync(outputDir)) { mkdirSync(outputDir) ... : one synchronous step
PlayEnter(r) ==
    /\ pc[r] = "arrived"
    /\ req[r].type = "hls" /\ req[r].method = "GET"
    /\ IF ~dirExists
       THEN /\ dirExists' = mkdirSync(dirExists)
            /\ mkdirCount' = mkdirCount + 1
            /\ pc' = [pc EXCEPT ![r] = "probe"]
       ELSE /\ pc' = [pc EXCEPT ![r] = "waitMaster"]
            /\ UNCHANGED <<dirExists, mkdirCount>>
    /\ UNCHANGED <<req, rangeCursor, media, disk, resp, proc, args, progress, cursorErr, killSent,
                   probeCount, spawnCount, patchCount>>

\* variant: the rejection is answered as a server error and planning goes on
ProbeReportsAndGoesOn(r) ==
    /\ pc[r] = "probe"
    /\ probeCount' = probeCount + 1
    /\ pc' = [pc EXCEPT ![r] = "planAudio"]
    /\ \/ /\ req[r].fileValid
          /\ resp' = resp
       \/ resp' = [resp EXCEPT ![r] = Response(500, <<>>, NoHeaders)]
    /\ UNCHANGED <<req, rangeCursor, media, dirExists, disk, proc, args, progress, cursorErr,
                   killSent, mkdirCount, spawnCount, patchCount>>

\* await this.getFileCodecInfoFromStream(file): resolves, or rejects and the
\* rejection leaves play() as a server error; with no such file in the torrent
\* file.createReadStream throws and the promise rejects
Probe(r) ==
    /\ pc[r] = "probe"
    /\ probeCount' = probeCount + 1
    /\ \/ /\ req[r].fileValid
          /\ pc' = [pc EXCEPT ![r] = "planAudio"]
          /\ resp' = resp
       \/ /\ pc' = [pc EXCEPT ![r] = "done"]
          /\ resp' = [resp EXCEPT ![r] = Response(500, <<>>, NoHeaders)]
    /\ UNCHANGED <<req, rangeCursor, media, dirExists, disk, proc, args, progress, cursorErr,
                   killSent, mkdirCount, spawnCount, patchCount>>

PlanStep(r, from, to, newDisk) ==
    /\ pc[r] = from
    /\ disk' = newDisk
    /\ pc' = [pc EXCEPT ![r] = to]
    /\ UNCHANGED <<req, rangeCursor, media, dirExists, resp, proc, args, progress, cursorErr,
                   killSent, mkdirCount, probeCount, spawnCount, patchCount>>

PlanAudio(r) ==
    PlanStep(r, "planAudio", "planSubtitle",
             generatePreGeneratedM3U8Audio(disk, CodecInfo))

\* variant: the master playlist is written along with the subtitle playlists,
\* ahead of the video playlist
PlanSubtitleAndMaster(r) ==
    PlanStep(r, "planSubtitle", "planVideo",
             generatePreGeneratedM3U8Master(
                 generatePreGeneratedM3U8Subtitle(disk, CodecInfo), CodecInfo))

PlanSubtitle(r) ==
    PlanStep(r, "planSubtitle", "planVideo",
             generatePreGeneratedM3U8Subtitle(disk, CodecInfo))

PlanVideo(r) ==
    PlanStep(r, "planVideo", "planMaster",
             generatePreGeneratedM3U8Video(disk, CodecInfo))

\* variant: the encoding is started before the master playlist is written
PlanMasterAfterSpawn(r) ==
    PlanStep(r, "planMaster", "spawn", disk)

PlanMaster(r) ==
    PlanStep(r, "planMaster", "spawn",
             generatePreGeneratedM3U8Master(disk, CodecInfo))

\* void this.generateHLS(...): every spawn happens in this one synchronous step
StartEncoding(r) ==
    /\ pc[r] = "spawn"
    /\ proc' = [j \in DOMAIN proc |-> "running"]
    /\ args' = JobArgs(CodecInfo)
    /\ progress' = [j \in DOMAIN progress |-> 0]
    /\ spawnCount' = spawnCount + 1
    /\ pc' = [pc EXCEPT ![r] = "waitMaster"]
    /\ UNCHANGED <<req, rangeCursor, media, dirExists, disk, resp, cursorErr, killSent,
                   mkdirCount, probeCount, patchCount>>

\* while (!existsSync(masterPath)) sleep(100)
PollMaster(r) ==
    /\ pc[r] = "waitMaster"
    /\ pc' = [pc EXCEPT ![r] = IF existsSync(MasterName) THEN "waitSegment"
                                ELSE "waitMaster"]
    /\ UNCHANGED <<req, rangeCursor, media, dirExists, disk, resp, proc, args, progress, cursorErr,
                   killSent, mkdirCount, probeCount, spawnCount, patchCount>>

\* variant: the loop is left when the video process is gone
PollSegmentUntilExit(r) ==
    /\ pc[r] = "waitSegment"
    /\ pc' = [pc EXCEPT ![r] = IF \/ existsSync(ThresholdSegmentName)
                                   \/ proc[[t |-> "video", i |-> 0]] \notin {"none", "running"}
                                THEN "readMaster"
                                ELSE "waitSegment"]
    /\ UNCHANGED <<req, rangeCursor, media, dirExists, disk, resp, proc, args, progress, cursorErr,
                   killSent, mkdirCount, probeCount, spawnCount, patchCount>>

\* while (!existsSync(segment_004.ts)) sleep(100)
PollSegment(r) ==
    /\ pc[r] = "waitSegment"
    /\ pc' = [pc EXCEPT ![r] = IF existsSync(ThresholdSegmentName) THEN "readMaster"
                                ELSE "waitSegment"]
    /\ UNCHANGED <<req, rangeCursor, media, dirExists, disk, resp, proc, args, progress, cursorErr,
                   killSent, mkdirCount, probeCount, spawnCount, patchCount>>

\* readFile(masterPath) and the 200 response
ServeMaster(r) ==
    /\ pc[r] = "readMaster"
    /\ existsSync(MasterName)
    /\ resp' = [resp EXCEPT ![r] =
                   Response(200, disk[MasterName],
                            [NoHeaders EXCEPT !.contentType = <<"application/vnd.apple.mpegurl">>])]
    /\ pc' = [pc EXCEPT ![r] = "done"]
    /\ UNCHANGED <<req, rangeCursor, media, dirExists, disk, proc, args, progress, cursorErr,
                   killSent, mkdirCount, probeCount, spawnCount, patchCount>>

(***************************************************************************)
(* play(), the torrent lookup and the routes other than HLS GET            *)
(***************************************************************************)
\* a request ends with a response
Respond(r, response) ==
    /\ resp' = [resp EXCEPT ![r] = response]
    /\ pc' = [pc EXCEPT ![r] = "done"]

\* an exception thrown inside play() (here the TypeError of reading a
\* property of the undefined file) is answered as a server error
ServerError == Response(500, <<>>, NoHeaders)

\* getTorrent, else getTorrentUrlBySourceId: no torrent URL is a 404
Lookup(r) ==
    /\ pc[r] = "lookup"
    /\ IF req[r].source = "unknown"
       THEN Respond(r, Response(404, <<"Torrent not found">>, NoHeaders))
       ELSE /\ pc' = [pc EXCEPT ![r] = "arrived"]
            /\ resp' = resp
    /\ UNCHANGED <<req, rangeCursor, media, dirExists, disk, proc, args, progress, cursorErr,
                   killSent, mkdirCount, probeCount, spawnCount, patchCount>>

\* mime.getType(file.path) || 'application/octet-stream'
fileType == <<"file type">>

\* c.body(null, 200, {Content-Length: file.length, Content-Type: contentType})
HeadResponse(length, contentType) ==
    Response(200, <<>>, [NoHeaders EXCEPT !.contentLength = <<length>>,
                                          !.contentType = contentType])

\* variant: the HEAD branch does not return and the session is created
HlsHeadFallsThrough(r) ==
    /\ pc[r] = "arrived"
    /\ req[r].type = "hls" /\ req[r].method = "HEAD"
    /\ Respond(r, IF req[r].fileValid
                  THEN HeadResponse(req[r].length, <<"application/vnd.apple.mpegurl">>)
                  ELSE ServerError)
    /\ dirExists' = TRUE
    /\ mkdirCount' = IF dirExists THEN mkdirCount ELSE mkdirCount + 1
    /\ UNCHANGED <<req, rangeCursor, media, disk, proc, args, progress, cursorErr,
                   killSent, probeCount, spawnCount, patchCount>>

\* if (type === 'hls') { if (c.req.method === 'HEAD') return c.body(null, 200, ...
HlsHead(r) ==
    /\ pc[r] = "arrived"
    /\ req[r].type = "hls" /\ req[r].method = "HEAD"
    /\ Respond(r, IF req[r].fileValid
                  THEN HeadResponse(req[r].length, <<"application/vnd.apple.mpegurl">>)
                  ELSE ServerError)
    /\ UNCHANGED <<req, rangeCursor, media, dirExists, disk, proc, args, progress, cursorErr,
                   killSent, mkdirCount, probeCount, spawnCount, patchCount>>

\* stream mode: if (c.req.method === 'HEAD') return c.body(null, 200, ...
StreamHead(r) ==
    /\ pc[r] = "arrived"
    /\ req[r].type = "stream" /\ req[r].method = "HEAD"
    /\ Respond(r, IF req[r].fileValid
                  THEN HeadResponse(req[r].length, fileType)
                  ELSE ServerError)
    /\ UNCHANGED <<req, rangeCursor, media, dirExists, disk, proc, args, progress, cursorErr,
                   killSent, mkdirCount, probeCount, spawnCount, patchCount>>

\* null
Null == <<>>

\* the results parseRangeHeader(header, length) may have: null for a missing or
\* unparsable header and for start > end or start >= length, the span for a
\* span inside the file; for a span that starts inside the file and ends
\* beyond it, either null or the span cut at the last byte
parseRangeHeader(header, length) ==
    IF header.form # "span" THEN {Null}
    ELSE IF header.start > header.end \/ header.start >= length THEN {Null}
    ELSE IF header.end < length THEN {<<[start |-> header.start, end |-> header.end]>>}
    ELSE {Null, <<[start |-> header.start, end |-> length - 1]>>}

\* c.body(null, 416, {Content-Range: bytes */length})
RangeNotSatisfiable(length) ==
    Response(416, <<>>,
             [NoHeaders EXCEPT !.contentRange = <<[span |-> <<>>, length |-> length]>>])

\* variant: Content-Length: end - start
contentLengthExclusive(start, end) == end - start

\* Content-Length: end - start + 1
contentLength(start, end) == end - start + 1

\* the bytes a cursor over start..end delivers, as offsets into the file
ByteSpan(start, end) == [n \in 1..(end - start + 1) |-> start + n - 1]

\* new Response(stream, {status: 206, headers: {Content-Range, Content-Length,
\* Content-Type, Accept-Ranges}})
PartialContent(start, end, length) ==
    Response(206, ByteSpan(start, end),
             [ contentLength |-> <<contentLength(start, end)>>,
               contentRange  |-> <<[span |-> <<start, end>>, length |-> length]>>,
               contentType   |-> fileType,
               acceptRanges  |-> <<"bytes">> ])

\* variant: a request without a usable range is served the whole file
StreamGetWholeFile(r) ==
    /\ pc[r] = "arrived"
    /\ req[r].type = "stream" /\ req[r].method = "GET"
    /\ IF ~req[r].fileValid
       THEN /\ Respond(r, ServerError)
            /\ rangeCursor' = rangeCursor
       ELSE \E range \in parseRangeHeader(req[r].range, req[r].length) :
                LET whole == [start |-> 0, end |-> req[r].length - 1]
                    span  == IF range = Null THEN whole ELSE range[1]
                IN  /\ rangeCursor' = [rangeCursor EXCEPT ![r] = <<span>>]
                    /\ Respond(r, PartialContent(span.start, span.end, req[r].length))
    /\ UNCHANGED <<req, media, dirExists, disk, proc, args, progress, cursorErr,
                   killSent, mkdirCount, probeCount, spawnCount, patchCount>>

\* stream mode GET: parseRangeHeader, then 416, or file.stream({start, end})
\* and 206
StreamGet(r) ==
    /\ pc[r] = "arrived"
    /\ req[r].type = "stream" /\ req[r].method = "GET"
    /\ IF ~req[r].fileValid
       THEN /\ Respond(r, ServerError)
            /\ rangeCursor' = rangeCursor
       ELSE \E range \in parseRangeHeader(req[r].range, req[r].length) :
                IF range = Null
                THEN /\ Respond(r, RangeNotSatisfiable(req[r].length))
                     /\ rangeCursor' = rangeCursor
                ELSE /\ rangeCursor' = [rangeCursor EXCEPT ![r] = range]
                     /\ Respond(r, PartialContent(range[1].start, range[1].end,
                                                  req[r].length))
    /\ UNCHANGED <<req, media, dirExists, disk, proc, args, progress, cursorErr,
                   killSent, mkdirCount, probeCount, spawnCount, patchCount>>

(***************************************************************************)
(* The spawned processes and their read cursors                            *)
(***************************************************************************)
\* a video or audio encoder writes its next segment file, in numeric order
EncoderWriteSegment(j) ==
    /\ j.t \in {"video", "audio"}
    /\ proc[j] = "running"
    /\ progress[j] < EncoderSegments
    /\ disk' = writeFile(disk,
                         ExpandPattern(OptionValue(args[j], "-hls_segment_filename"),
                                       progress[j]),
                         <<"mpegts">>)
    /\ progress' = [progress EXCEPT ![j] = @ + 1]
    /\ UNCHANGED <<req, rangeCursor, media, dirExists, pc, resp, proc, args, cursorErr, killSent,
                   mkdirCount, probeCount, spawnCount, patchCount>>

\* a subtitle extractor writes its single output file
SubtitleWrite(j) ==
    /\ j.t = "sub"
    /\ proc[j] = "running"
    /\ progress[j] = 0
    /\ \E content \in VttOutputs : disk' = writeFile(disk, OutputFile(args[j]), content)
    /\ progress' = [progress EXCEPT ![j] = 1]
    /\ UNCHANGED <<req, rangeCursor, media, dirExists, pc, resp, proc, args, cursorErr, killSent,
                   mkdirCount, probeCount, spawnCount, patchCount>>

\* variant: the subtitle exit handler patches whatever the exit code
patchesOnAnyExit(j, code) == j.t = "sub"

\* subtitleFfmpegProcess.on('exit'): if (code === 0) ... patchVttWithTimestampMap
patchesOnExit(j, code) == j.t = "sub" /\ code = 0

\* variant: a failed audio or subtitle job cancels the session by killing the
\* video process
ProcessExitCancelsSession(j, code) ==
    /\ proc[j] = "running"
    /\ code = 0 => (j.t = "sub" \/ progress[j] = EncoderSegments)
    /\ proc' = [k \in DOMAIN proc |->
                  IF k = j THEN (IF code = 0 THEN "exit0" ELSE "exit1")
                  ELSE IF k = VideoJob /\ code # 0 /\ proc[k] = "running" THEN "killed"
                  ELSE proc[k]]
    /\ killSent' = IF code # 0 /\ j # VideoJob THEN killSent \cup {VideoJob} ELSE killSent
    /\ IF patchesOnExit(j, code)
       THEN /\ disk' = patchVttWithTimestampMap(disk, VttName(j.i))
            /\ patchCount' = [patchCount EXCEPT ![j.i] = @ + 1]
       ELSE UNCHANGED <<disk, patchCount>>
    /\ UNCHANGED <<req, rangeCursor, media, dirExists, pc, resp, args, progress, cursorErr,
                   mkdirCount, probeCount, spawnCount>>

\* the 'exit' handlers: video and audio only log; a subtitle job that exits
\* with code 0 has its file patched
ProcessExit(j, code) ==
    /\ proc[j] = "running"
    /\ code = 0 => (j.t = "sub" \/ progress[j] = EncoderSegments)
    /\ proc' = [proc EXCEPT ![j] = IF code = 0 THEN "exit0" ELSE "exit1"]
    /\ IF patchesOnExit(j, code)
       THEN /\ disk' = patchVttWithTimestampMap(disk, VttName(j.i))
            /\ patchCount' = [patchCount EXCEPT ![j.i] = @ + 1]
       ELSE UNCHANGED <<disk, patchCount>>
    /\ UNCHANGED <<req, rangeCursor, media, dirExists, pc, resp, args, progress, cursorErr, killSent,
                   mkdirCount, probeCount, spawnCount>>

\* the 'error' handlers of the read cursors: kill('SIGKILL')
CursorError(j) ==
    /\ proc[j] = "running"
    /\ j \notin cursorErr
    /\ cursorErr' = cursorErr \cup {j}
    /\ killSent' = killSent \cup {KillTarget(j)}
    /\ proc' = [proc EXCEPT ![KillTarget(j)] = IF @ = "running" THEN "killed" ELSE @]
    /\ UNCHANGED <<req, rangeCursor, media, dirExists, disk, pc, resp, args, progress,
                   mkdirCount, probeCount, spawnCount, patchCount>>

Next ==
    \/ \E r \in Reqs : PlayEnter(r)
    \/ \E r \in Reqs : Probe(r)
    \/ \E r \in Reqs : PlanAudio(r)
    \/ \E r \in Reqs : PlanSubtitle(r)
    \/ \E r \in Reqs : PlanVideo(r)
    \/ \E r \in Reqs : PlanMaster(r)
    \/ \E r \in Reqs : StartEncoding(r)
    \/ \E r \in Reqs : PollMaster(r)
    \/ \E r \in Reqs : PollSegment(r)
    \/ \E r \in Reqs : ServeMaster(r)
    \/ \E j \in DOMAIN proc : EncoderWriteSegment(j)
    \/ \E j \in DOMAIN proc : SubtitleWrite(j)
    \/ \E j \in DOMAIN proc, code \in {0, 1} : ProcessExit(j, code)
    \/ \E j \in DOMAIN proc : CursorError(j)

Spec == Init /\ [][Next]_vars

\* the event loop runs every timer and I/O callback that is due
FairSpec ==
    /\ Spec
    /\ \A r \in Reqs : WF_vars(PollMaster(r))
    /\ \A r \in Reqs : WF_vars(PollSegment(r))
    /\ \A r \in Reqs : WF_vars(ServeMaster(r))

(***************************************************************************)
(* Route specification: the first request is of any kind, with any Range   *)
(* header, for a file of any length within the bounds; the others are HLS  *)
(* GET requests for the same infoHash and fileIdx                          *)
(***************************************************************************)
Ranges ==
    { NoRange, [form |-> "garbage", start |-> 0, end |-> 0] }
    \cup { [form |-> "span", start |-> a, end |-> b] :
               a \in 0..(MaxLength + 1), b \in 0..(MaxLength + 1) }

Files ==
    { File("unknown", TRUE, 1), File("found", FALSE, 1) }
    \cup { File("found", TRUE, n) : n \in 0..MaxLength }

RequestsTo(file) ==
    { Request("hls", "GET", NoRange, file), Request("hls", "HEAD", NoRange, file),
      Request("stream", "HEAD", NoRange, file) }
    \cup { Request("stream", "GET", range, file) : range \in Ranges }

\* a source of five segments and no further tracks
RouteMedia == SessionSource(45, <<>>, <<>>)

InitRoute ==
    \E file \in Files : \E first \in RequestsTo(file) :
        InitWith([r \in Reqs |-> IF r = 1 THEN first
                                 ELSE Request("hls", "GET", NoRange, file)],
                 [r \in Reqs |-> "lookup"], RouteMedia, FALSE, EmptyDisk)

NextRoute ==
    \/ \E r \in Reqs : Lookup(r)
    \/ \E r \in Reqs : HlsHead(r)
    \/ \E r \in Reqs : StreamHead(r)
    \/ \E r \in Reqs : StreamGet(r)
    \/ \E r \in Reqs : PlayEnter(r)
    \/ \E r \in Reqs : Probe(r)
    \/ \E r \in Reqs : PlanAudio(r)
    \/ \E r \in Reqs : PlanSubtitle(r)
    \/ \E r \in Reqs : PlanVideo(r)
    \/ \E r \in Reqs : PlanMaster(r)
    \/ \E r \in Reqs : StartEncoding(r)
    \/ \E r \in Reqs : PollMaster(r)
    \/ \E r \in Reqs : PollSegment(r)
    \/ \E r \in Reqs : ServeMaster(r)
    \/ \E j \in DOMAIN proc : EncoderWriteSegment(j)
    \/ \E j \in DOMAIN proc, code \in {0, 1} : ProcessExit(j, code)
    \/ \E j \in DOMAIN proc : CursorError(j)

RouteSpec == InitRoute /\ [][NextRoute]_vars

(***************************************************************************)
(* Planner specification: one request plans and starts a session, for      *)
(* every CodecInfo within the bounds                                       *)
(***************************************************************************)
RECURSIVE SeqsUpTo(_, _)
SeqsUpTo(S, n) ==
    IF n = 0 THEN {<<>>}
    ELSE LET shorter == SeqsUpTo(S, n - 1)
         IN  shorter \cup {Append(q, x) : q \in shorter, x \in S}

\* pix_fmt names ffprobe reports for video streams, with their bit depth
PixFmtTable ==
    { [name |-> <<"y", "u", "v", "4", "2", "0", "p">>, bits |-> 8],
      [name |-> <<"y", "u", "v", "j", "4", "2", "0", "p">>, bits |-> 8],
      [name |-> <<"y", "u", "v", "4", "2", "0", "p", "1", "0", "l", "e">>, bits |-> 10],
      [name |-> <<"y", "u", "v", "4", "2", "0", "p", "1", "2", "l", "e">>, bits |-> 12] }

PlanMedia ==
    [ duration   : {<<>>} \cup {<<d>> : d \in 0..MaxDuration},
      videoCodec : {<<>>, <<"h264">>, <<"hevc">>},
      pixFmt     : {<<>>} \cup {e.name : e \in PixFmtTable},
      audio      : SeqsUpTo({Track(<<"aac">>, <<>>), Track(<<"ac3">>, <<"Surround">>)},
                            MaxAudio),
      subs       : SeqsUpTo({Track(<<"subrip">>, <<>>)}, MaxSubs) ]

InitPlan == \E m \in PlanMedia : InitFor(m, FALSE, EmptyDisk)

NextPlan ==
    \/ PlayEnter(1)
    \/ Probe(1)
    \/ PlanAudio(1)
    \/ PlanSubtitle(1)
    \/ PlanVideo(1)
    \/ PlanMaster(1)
    \/ StartEncoding(1)

PlanSpec == InitPlan /\ [][NextPlan]_vars

(***************************************************************************)
(* Post-processor specification: patchVttWithTimestampMap applied, again   *)
(* and again, to every subtitle file within the bounds (and to none)       *)
(***************************************************************************)
VttMedia ==
    [ duration   |-> <<hlsTime * TicksPerSecond>>,
      videoCodec |-> <<"h264">>,
      pixFmt     |-> <<>>,
      audio      |-> <<>>,
      subs       |-> << Track(<<"subrip">>, <<>>) >> ]

VttFiles == SeqsUpTo(VttLines \cup {""}, MaxLines)

InitVtt ==
    \/ InitFor(VttMedia, TRUE, EmptyDisk)
    \/ \E content \in VttFiles :
           InitFor(VttMedia, TRUE, writeFile(EmptyDisk, VttName(0), content))

PatchVtt ==
    /\ patchCount[0] < MaxPatches
    /\ disk' = patchVttWithTimestampMap(disk, VttName(0))
    /\ patchCount' = [patchCount EXCEPT ![0] = @ + 1]
    /\ UNCHANGED <<req, rangeCursor, media, dirExists, pc, resp, proc, args, progress, cursorErr,
                   killSent, mkdirCount, probeCount, spawnCount>>

VttSpec == InitVtt /\ [][PatchVtt]_vars

(***************************************************************************)
(* Properties                                                              *)
(***************************************************************************)
\* names of the layout, written out digit by digit
Digit3(n) == << DigitChars[((n \div 100) % 10) + 1],
                DigitChars[((n \div 10) % 10) + 1],
                DigitChars[(n % 10) + 1] >>
SegmentFile(n) == <<"segment_">> \o Digit3(n) \o <<".ts">>
AudioSegmentFile(index, n) ==
    <<"audio_", DigitChars[index + 1], "_">> \o Digit3(n) \o <<".ts">>

FiveSegmentsOnDisk == \A n \in 0..4 : SegmentFile(n) \in DOMAIN disk

\* C1: whatever the interleaving of the HLS GET requests for one key, the
\* session directory is created at most once, the codec probe runs at most
\* once and at most one encoding pipeline is started.
C1_SessionCreatedOnce ==
    /\ mkdirCount <= 1
    /\ probeCount <= 1
    /\ spawnCount <= 1

\* every request went through play() and was served, by a single pipeline
C1_Witness ==
    /\ MaxReqs >= 2
    /\ spawnCount = 1
    /\ \A r \in Reqs : resp[r].status = 200

\* C2: a 200 response is only sent when master.m3u8 and the video segments
\* segment_000.ts .. segment_004.ts are on disk.
C2_ServedOnlyWhenReady ==
    \A r \in Reqs :
        resp[r].status = 200 =>
            /\ <<"master.m3u8">> \in DOMAIN disk
            /\ FiveSegmentsOnDisk

\* a request served at the moment exactly five video segments exist
C2_Witness ==
    /\ \E r \in Reqs : resp[r].status = 200
    /\ progress[VideoJob] = 5

Waiting(r) == pc[r] \in {"waitMaster", "waitSegment", "readMaster"}

\* C3: once master.m3u8 exists and the video job has produced the threshold
\* segment, every request waiting on the readiness gate is eventually
\* answered with 200 and the master playlist; no job has to exit for that.
C3_GateReleasesWaiters ==
    \A r \in Reqs :
        (Waiting(r) /\ <<"master.m3u8">> \in DOMAIN disk /\ FiveSegmentsOnDisk)
            ~> (resp[r].status = 200 /\ resp[r].body = MasterPlaylist(CodecInfo))

\* every request answered while every job of the session is still running
C3_Witness ==
    /\ \A r \in Reqs : resp[r].status = 200 /\ resp[r].body = MasterPlaylist(CodecInfo)
    /\ \A j \in DOMAIN proc : proc[j] = "running"

\* C4: a read-cursor error of a track job kills that job's own process and
\* no other: the processes that were sent SIGKILL are exactly those of the
\* jobs whose cursor failed.
C4_CursorErrorKillsOwnProcess == killSent = cursorErr

NonVideoFailed(j) == j.t # "video" /\ proc[j] = "exit1"

\* C5: a non-zero exit of an audio or subtitle job changes that job's outcome
\* only: no other process changes state or is sent a signal, no file is
\* removed or rewritten, no request moves; and a request waiting at an open
\* gate is still answered after such a failure.
C5_NonVideoFailureIsolated ==
    /\ [][ \A j \in DOMAIN proc :
             (j.t # "video" /\ proc[j] = "running" /\ proc'[j] = "exit1") =>
                 /\ disk' = disk
                 /\ killSent' = killSent
                 /\ pc' = pc
                 /\ \A k \in DOMAIN proc \ {j} : proc'[k] = proc[k] ]_vars
    /\ \A r \in Reqs :
           ( /\ Waiting(r)
             /\ <<"master.m3u8">> \in DOMAIN disk
             /\ FiveSegmentsOnDisk
             /\ \E j \in DOMAIN proc : NonVideoFailed(j) )
               ~> (resp[r].status = 200)

\* a non-video job failed after writing its file, which is still there; the
\* video job runs on and every request was answered
C5_Witness ==
    /\ \E j \in DOMAIN proc :
           /\ NonVideoFailed(j)
           /\ progress[j] > 0
           /\ \/ j.t = "audio" /\ AudioSegmentFile(j.i, 0) \in DOMAIN disk
              \/ j.t = "sub" /\ <<"subtitles_", DigitChars[j.i + 1], ".vtt">> \in DOMAIN disk
    /\ proc[VideoJob] = "running"
    /\ \A r \in Reqs : resp[r].status = 200
\* a subtitle file that carries the directive right after its first header
HasDirectiveAfterHeader(lines) ==
    \E h \in 1..(Len(lines) - 1) :
        /\ lines[h] \in {"WEBVTT", "WEBVTT - subtitles"}
        /\ \A k \in 1..(h - 1) : lines[k] \notin {"WEBVTT", "WEBVTT - subtitles"}
        /\ lines[h + 1] = "X-TIMESTAMP-MAP=LOCAL:00:00:00.000,MPEGTS:135000"

\* C6: patching a subtitle file that already carries the X-TIMESTAMP-MAP
\* directive after its WEBVTT header leaves the file as it is
\* (patch(patch(f)) = patch(f)).
C6_PatchIdempotent ==
    [][ ( /\ <<"subtitles_", "0", ".vtt">> \in DOMAIN disk
          /\ HasDirectiveAfterHeader(disk[<<"subtitles_", "0", ".vtt">>]) )
        => disk' = disk ]_vars

\* ceil(D / 10) for a duration of D ticks: the least n with n * 10 seconds >= D
CeilSegments(durationTicks) ==
    CHOOSE n \in 0..((durationTicks \div (10 * TicksPerSecond)) + 1) :
        /\ n * 10 * TicksPerSecond >= durationTicks
        /\ n > 0 => (n - 1) * 10 * TicksPerSecond < durationTicks

\* pl is: four header lines, then n entries (nominal length 10, names
\* prefix000.ts, prefix001.ts, ... in this order), then the one end marker
IsPlaceholder(pl, prefix, n) ==
    /\ Len(pl) = 4 + 2 * n + 1
    /\ \A k \in 1..4 : pl[k].tag \notin {"uri", "#EXTINF:", "#EXT-X-ENDLIST"}
    /\ \A i \in 0..(n - 1) :
           /\ pl[4 + 2 * i + 1] = [tag |-> "#EXTINF:", value |-> <<"1", "0", ",">>]
           /\ pl[4 + 2 * i + 2] = [tag |-> "uri", value |-> prefix \o Digit3(i) \o <<".ts">>]
    /\ pl[Len(pl)] = [tag |-> "#EXT-X-ENDLIST", value |-> <<>>]

AudioPlaylistFile(index) == <<"audio_", DigitChars[index + 1], ".m3u8">>
SubtitlePlaylistFile(index) == <<"subtitles_", DigitChars[index + 1], ".m3u8">>
SubtitleFile(index) == <<"subtitles_", DigitChars[index + 1], ".vtt">>

Planned(r) == pc[r] \in {"spawn", "waitMaster", "waitSegment", "readMaster"}

\* C7: for every duration D the placeholder video playlist and every
\* placeholder audio playlist hold exactly ceil(D / 10) entries, numbered
\* from 0 upwards, each of nominal length 10, then one end-of-list marker.
C7_PlaceholderSegmentCount ==
    LET n == CeilSegments(CodecInfo.duration)
    IN  /\ <<"video.m3u8">> \in DOMAIN disk =>
               IsPlaceholder(disk[<<"video.m3u8">>], <<"segment_">>, n)
        /\ \A index \in 0..(Len(media.audio) - 1) :
               /\ AudioPlaylistFile(index) \in DOMAIN disk =>
                      IsPlaceholder(disk[AudioPlaylistFile(index)],
                                    <<"audio_", DigitChars[index + 1], "_">>, n)
               /\ Planned(1) => AudioPlaylistFile(index) \in DOMAIN disk
        /\ Planned(1) => <<"video.m3u8">> \in DOMAIN disk

\* planning done for a source of two audio tracks whose duration is more than
\* one segment and not a whole number of segments
C7_Witness ==
    /\ Planned(1)
    /\ Len(media.audio) >= 2
    /\ media.duration # <<>>
    /\ CodecInfo.duration > 10 * TicksPerSecond
    /\ CodecInfo.duration % (10 * TicksPerSecond) # 0

\* C8: the master playlist holds one alternate-rendition entry per subtitle
\* descriptor, then one per audio descriptor, each group in the order of the
\* descriptors' index, then the single video variant.
C8_MasterOrder ==
    <<"master.m3u8">> \in DOMAIN disk =>
        LET m  == disk[<<"master.m3u8">>]
            nS == Len(CodecInfo.subtitles)
            nA == Len(CodecInfo.audioStreams)
        IN  /\ Len(m) = 1 + nS + nA + 2
            /\ m[1].tag = "#EXTM3U"
            /\ \A k \in 1..nS :
                   /\ CodecInfo.subtitles[k].index = k - 1
                   /\ m[1 + k].tag = "#EXT-X-MEDIA:"
                   /\ m[1 + k].type = "SUBTITLES"
                   /\ m[1 + k].uri = <<"hls/">> \o SubtitlePlaylistFile(k - 1)
            /\ \A k \in 1..nA :
                   /\ CodecInfo.audioStreams[k].index = k - 1
                   /\ m[1 + nS + k].tag = "#EXT-X-MEDIA:"
                   /\ m[1 + nS + k].type = "AUDIO"
                   /\ m[1 + nS + k].uri = <<"hls/">> \o AudioPlaylistFile(k - 1)
            /\ m[Len(m) - 1].tag = "#EXT-X-STREAM-INF:"
            /\ m[Len(m)] = [tag |-> "uri", value |-> <<"hls/", "video.m3u8">>]

\* a master playlist written for two subtitle and two audio tracks
C8_Witness ==
    /\ <<"master.m3u8">> \in DOMAIN disk
    /\ Len(media.subs) >= 2
    /\ Len(media.audio) >= 2

\* a URI of the master playlist names a file of outputDir behind the route
\* prefix hls/
Resolve(uri) == IF uri # <<>> /\ Head(uri) = "hls/" THEN Tail(uri) ELSE uri

Uris(pl) == {pl[k].value : k \in {i \in 1..Len(pl) : pl[i].tag = "uri"}}

MasterRenditions(type) ==
    LET m == disk[<<"master.m3u8">>]
    IN  {Resolve(m[k].uri) :
            k \in {i \in 1..Len(m) : m[i].tag = "#EXT-X-MEDIA:" /\ m[i].type = type}}

MasterVariants == {Resolve(u) : u \in Uris(disk[<<"master.m3u8">>])}

\* names the planner announced for encoder output: the segmented playlists the
\* master refers to, and every file named inside a playlist it refers to
AnnouncedNames ==
    MasterVariants \cup MasterRenditions("AUDIO")
    \cup UNION {Uris(disk[f]) : f \in MasterVariants \cup MasterRenditions("AUDIO")
                                      \cup MasterRenditions("SUBTITLES")}

\* names job j was handed: its output file and, for a segmenting job, its
\* segment pattern at every position of the planned length
HandedNames(j) ==
    {OutputFile(args[j])}
    \cup (IF j.t = "sub" THEN {}
          ELSE {ExpandPattern(OptionValue(args[j], "-hls_segment_filename"), n) :
                    n \in 0..(CeilSegments(CodecInfo.duration) - 1)})

\* the track a job selects with -map, and the track its output is named after
MapsOwnTrack(j) ==
    \/ j.t = "video" /\ OutputFile(args[j]) = <<"video.m3u8">>
    \/ /\ j.t = "audio"
       /\ OptionValue(args[j], "-map") = <<"0:a:", DigitChars[j.i + 1]>>
       /\ OutputFile(args[j]) = AudioPlaylistFile(j.i)
    \/ /\ j.t = "sub"
       /\ OptionValue(args[j], "-map") = <<"0:s:", DigitChars[j.i + 1]>>
       /\ OutputFile(args[j]) = SubtitleFile(j.i)

\* C9: the playlist and output names handed to the jobs are exactly the names
\* the planner announced in the master and placeholder playlists (master URIs
\* taken relative to their hls/ prefix): every job writes to announced names
\* of its own track only, and every announced name has exactly one writer.
C9_JobNamesMatchPlan ==
    spawnCount >= 1 =>
        LET handed == [j \in DOMAIN args |-> HandedNames(j)]
        IN  /\ UNION {handed[j] : j \in DOMAIN args} = AnnouncedNames
            /\ \A j, k \in DOMAIN args : j # k => handed[j] \cap handed[k] = {}
            /\ \A j \in DOMAIN args : MapsOwnTrack(j)
            /\ Cardinality(DOMAIN args) = 1 + Len(media.audio) + Len(media.subs)

\* a started session with two audio tracks, two subtitle tracks and segments
C9_Witness ==
    /\ spawnCount = 1
    /\ Len(media.audio) >= 2
    /\ Len(media.subs) >= 2
    /\ CodecInfo.duration > 10 * TicksPerSecond

HighBitDepth(pixFmt) == \E e \in PixFmtTable : e.name = pixFmt /\ e.bits > 8

IsCopyOnly(a) == \E k \in 1..(Len(a) - 1) : a[k] = <<"-c:v">> /\ a[k + 1] = <<"copy">>

FastPresets == {"ultrafast", "superfast", "veryfast", "faster", "fast"}

IsFastReencode(a) ==
    /\ \E k \in 1..(Len(a) - 1) : a[k] = <<"-c:v">> /\ a[k + 1] # <<"copy">>
    /\ \E k \in 1..(Len(a) - 1) :
           a[k] = <<"-preset">> /\ Len(a[k + 1]) = 1 /\ a[k + 1][1] \in FastPresets

\* C10: the video job is a copy-only job exactly when the source video codec
\* is h264 and the pixel format is not high-bit-depth; every other source,
\* one without a codec included, gets a re-encode job with a fast preset.
C10_CopyIffCompatible ==
    spawnCount >= 1 =>
        IF media.videoCodec = <<"h264">> /\ ~HighBitDepth(media.pixFmt)
        THEN IsCopyOnly(args[VideoJob])
        ELSE IsFastReencode(args[VideoJob])


\* a stream-mode GET of a file the torrent has
RangeRequest(r) ==
    /\ req[r].type = "stream" /\ req[r].method = "GET"
    /\ req[r].source = "found" /\ req[r].fileValid

Answered(r) == resp[r].status # 0

\* C11: a stream-mode GET whose Range header is missing, is not a byte range,
\* or has start > end or start >= file length is answered 416 with a
\* Content-Range that reports the full length, with no body, and no read
\* cursor is opened for it.
C11_BadRangeIs416 ==
    \A r \in Reqs :
        LET h == req[r].range
            L == req[r].length
        IN  ( /\ RangeRequest(r)
              /\ \/ h.form \in {"missing", "garbage"}
                 \/ h.form = "span" /\ (h.start > h.end \/ h.start >= L) )
            => /\ rangeCursor[r] = <<>>
               /\ Answered(r) =>
                    /\ resp[r].status = 416
                    /\ resp[r].headers.contentRange = <<[span |-> <<>>, length |-> L]>>
                    /\ resp[r].body = <<>>

C11_Witness ==
    \E r \in Reqs :
        /\ RangeRequest(r)
        /\ req[r].range.form = "span"
        /\ req[r].range.start <= req[r].range.end
        /\ req[r].range.start >= req[r].length
        /\ resp[r].status = 416

\* C12: a stream-mode GET with a range 0 <= start <= end < L is answered 206
\* with Content-Range bytes start-end/L and Content-Length end - start + 1,
\* its body read from a cursor newly opened over exactly bytes start..end.
C12_GoodRangeIs206 ==
    \A r \in Reqs :
        LET h == req[r].range
            L == req[r].length
        IN  ( /\ RangeRequest(r)
              /\ h.form = "span"
              /\ 0 <= h.start /\ h.start <= h.end /\ h.end < L )
            => IF Answered(r)
               THEN /\ resp[r].status = 206
                    /\ resp[r].headers.contentRange =
                           <<[span |-> <<h.start, h.end>>, length |-> L]>>
                    /\ resp[r].headers.contentLength = <<h.end - h.start + 1>>
                    /\ rangeCursor[r] = <<[start |-> h.start, end |-> h.end]>>
                    /\ Len(resp[r].body) = h.end - h.start + 1
                    /\ \A n \in 1..Len(resp[r].body) : resp[r].body[n] = h.start + n - 1
               ELSE rangeCursor[r] = <<>>

C12_Witness ==
    \E r \in Reqs :
        /\ RangeRequest(r)
        /\ req[r].range = [form |-> "span", start |-> 0, end |-> 1]
        /\ req[r].length = 2
        /\ resp[r].status = 206
        /\ resp[r].headers.contentLength = <<2>>


\* the torrent is found nowhere, or has no file at the request's index
NamesNothing(r) == req[r].source = "unknown" \/ ~req[r].fileValid

\* C13: a playback request that names an unknown source id, or a file index
\* the torrent does not have, is answered 404; no session directory is created
\* and no job is started for it.
C13_UnknownIs404 ==
    \A r \in Reqs :
        NamesNothing(r) =>
            /\ Answered(r) => resp[r].status = 404
            /\ mkdirCount = 0
            /\ spawnCount = 0


\* C14: when the probe of the creating request fails, that request ends with
\* a server error instead of waiting on the readiness gate, no placeholder or
\* master playlist is written, and no encoding job is spawned.
C14_ProbeFailureEndsRequest ==
    \A r \in Reqs :
        resp[r].status = 500 =>
            /\ pc[r] = "done"
            /\ DOMAIN disk = {}
            /\ spawnCount = 0
            /\ \A j \in DOMAIN proc : proc[j] = "none"

\* the creating request failed at the probe while another request waits
C14_Witness ==
    \E r \in Reqs :
        /\ probeCount = 1
        /\ resp[r].status = 500
        /\ \E other \in Reqs \ {r} : pc[other] = "waitMaster"

DirectiveCount(lines) ==
    Cardinality({ n \in 1..Len(lines) :
                    lines[n] = "X-TIMESTAMP-MAP=LOCAL:00:00:00.000,MPEGTS:135000" })

\* C15: the subtitle post-processor runs for a track exactly when that track's
\* job has exited with code 0, once, on the file subtitles_<index>.vtt of that
\* track; it does not run for a job that exits with another code or is killed.
C15_PatchExactlyOnCleanExit ==
    \A index \in DOMAIN patchCount :
        LET clean == proc[[t |-> "sub", i |-> index]] = "exit0"
        IN  /\ patchCount[index] = IF clean THEN 1 ELSE 0
            /\ SubtitleFile(index) \in DOMAIN disk =>
                   DirectiveCount(disk[SubtitleFile(index)]) = IF clean THEN 1 ELSE 0

\* one track patched after a clean exit, another left alone after a failure
C15_Witness ==
    \E a \in DOMAIN patchCount : \E b \in DOMAIN patchCount :
        /\ proc[[t |-> "sub", i |-> a]] = "exit0"
        /\ proc[[t |-> "sub", i |-> b]] = "exit1"
        /\ SubtitleFile(a) \in DOMAIN disk
        /\ SubtitleFile(b) \in DOMAIN disk
        /\ DirectiveCount(disk[SubtitleFile(a)]) = 1
        /\ patchCount[a] = 1 /\ patchCount[b] = 0

\* the video process is gone and has not written the threshold segment
VideoGoneEarly ==
    /\ proc[[t |-> "video", i |-> 0]] \in {"exit0", "exit1", "killed"}
    /\ SegmentFile(4) \notin DOMAIN disk

\* C17: once the video job has exited, with whatever code, before the
\* threshold segment exists, no HLS GET of the session is ever answered,
\* neither with 200 nor with an error, and no job is started again.
C17_EarlyVideoExitBlocksForever ==
    /\ [](VideoGoneEarly => \A r \in Reqs : resp[r].status = 0 /\ pc[r] # "done")
    /\ [][ VideoGoneEarly =>
             /\ VideoGoneEarly'
             /\ spawnCount' = spawnCount
             /\ \A j \in DOMAIN proc : proc[j] # "running" => proc'[j] = proc[j] ]_vars

\* every request polls for the threshold segment after the video job ended
C17_Witness ==
    /\ VideoGoneEarly
    /\ spawnCount = 1
    /\ \A r \in Reqs : pc[r] = "waitSegment"

IsPlaylistName(name) ==
    \/ name \in { <<"master.m3u8">>, <<"video.m3u8">> }
    \/ \E index \in 0..9 : name \in { AudioPlaylistFile(index), SubtitlePlaylistFile(index) }

AllPlaylistsOnDisk ==
    /\ <<"master.m3u8">> \in DOMAIN disk
    /\ <<"video.m3u8">> \in DOMAIN disk
    /\ \A index \in 0..(Len(media.audio) - 1) : AudioPlaylistFile(index) \in DOMAIN disk
    /\ \A index \in 0..(Len(media.subs) - 1) : SubtitlePlaylistFile(index) \in DOMAIN disk

\* C18: every placeholder playlist and the master playlist are written before
\* any encoding process is spawned: while the playlists are being written no
\* process has been started and the directory holds no encoder output, and
\* once a process has been started all playlists are there.
C18_PlaylistsBeforeSpawn ==
    /\ (\E r \in Reqs : pc[r] \in {"planAudio", "planSubtitle", "planVideo", "planMaster"})
           => /\ \A j \in DOMAIN proc : proc[j] = "none"
              /\ \A name \in DOMAIN disk : IsPlaylistName(name)
    /\ (spawnCount > 0 \/ \E j \in DOMAIN proc : proc[j] # "none")
           => AllPlaylistsOnDisk

C18_Witness ==
    /\ spawnCount = 1
    /\ AllPlaylistsOnDisk
    /\ SegmentFile(0) \in DOMAIN disk


\* a request that is not an HLS GET
OffSession(r) == req[r].type = "stream" \/ req[r].method = "HEAD"

\* C16: a stream-mode request (HEAD or GET, whatever its Range header) and an
\* HLS HEAD request leave the session as it is: no directory is created, no
\* file written, no probe run, no process spawned or signalled; and a HEAD
\* request for a file of the torrent is answered 200 with Content-Length equal
\* to the file's length and no body.
C16_OffSessionRequestsChangeNothing ==
    [][ \A r \in Reqs :
          (OffSession(r) /\ (pc'[r] # pc[r] \/ resp'[r] # resp[r])) =>
              /\ <<dirExists, disk, proc, args, progress, cursorErr, killSent,
                   mkdirCount, probeCount, spawnCount, patchCount>>' =
                 <<dirExists, disk, proc, args, progress, cursorErr, killSent,
                   mkdirCount, probeCount, spawnCount, patchCount>>
              /\ ( /\ req[r].method = "HEAD"
                   /\ req[r].source = "found" /\ req[r].fileValid
                   /\ resp'[r].status # 0 )
                 => /\ resp'[r].status = 200
                    /\ resp'[r].headers.contentLength = <<req[r].length>>
                    /\ resp'[r].body = <<>> ]_vars

\* an HLS HEAD answered while the session of the same file is encoding
C16_Witness ==
    \E r \in Reqs :
        /\ req[r].type = "hls" /\ req[r].method = "HEAD"
        /\ resp[r].status = 200
        /\ resp[r].headers.contentLength = <<2>>
        /\ spawnCount = 1
        /\ mkdirCount = 1

\* C19: patching a file that has a line starting with WEBVTT yields the
\* original lines in their order with the one directive line inserted right
\* after the first such line; a file without a header keeps its content; and
\* the call completes in every case, an unreadable file included.
C19_PatchInsertsAfterFirstHeader ==
    [][ LET f == <<"subtitles_", "0", ".vtt">>
        IN  /\ patchCount'[0] = patchCount[0] + 1
            /\ IF f \notin DOMAIN disk THEN disk' = disk
               ELSE LET lines   == disk[f]
                        headers == { h \in 1..Len(lines) :
                                       lines[h] \in {"WEBVTT", "WEBVTT - subtitles"} }
                    IN  IF headers = {} THEN disk' = disk
                        ELSE \E h \in headers :
                               /\ \A k \in headers : h <= k
                               /\ DOMAIN disk' = DOMAIN disk
                               /\ disk'[f] =
                                    SubSeq(lines, 1, h)
                                    \o <<"X-TIMESTAMP-MAP=LOCAL:00:00:00.000,MPEGTS:135000">>
                                    \o SubSeq(lines, h + 1, Len(lines)) ]_vars

\* a file whose header is its second line, patched once
C19_Witness ==
    /\ patchCount[0] = 1
    /\ <<"subtitles_", "0", ".vtt">> \in DOMAIN disk
    /\ Len(disk[<<"subtitles_", "0", ".vtt">>]) = 3
    /\ disk[<<"subtitles_", "0", ".vtt">>][1] = ""
    /\ disk[<<"subtitles_", "0", ".vtt">>][2] = "WEBVTT"
    /\ disk[<<"subtitles_", "0", ".vtt">>][3] =
           "X-TIMESTAMP-MAP=LOCAL:00:00:00.000,MPEGTS:135000"

\* C20: when the probe has succeeded and every job of the session has run to
\* completion with exit code 0, every HLS GET waiting on the session is
\* eventually answered 200, whatever the duration of the source.
C20_CleanRunAnswersEveryRequest ==
    \A r \in Reqs :
        (Waiting(r) /\ \A j \in DOMAIN proc : proc[j] = "exit0")
            ~> (resp[r].status = 200)


\* the playlists the master playlist on disk refers to
MasterReferences ==
    MasterVariants \cup MasterRenditions("AUDIO") \cup MasterRenditions("SUBTITLES")

\* C21: in every reachable state in which master.m3u8 exists, every playlist
\* it refers to exists as well: video.m3u8, audio_<index>.m3u8 for every audio
\* descriptor and subtitles_<index>.m3u8 for every subtitle descriptor.
C21_MasterReferencesExist ==
    <<"master.m3u8">> \in DOMAIN disk =>
        /\ MasterReferences \subseteq DOMAIN disk
        /\ <<"video.m3u8">> \in MasterReferences
        /\ \A index \in 0..(Len(media.audio) - 1) :
               AudioPlaylistFile(index) \in MasterReferences
        /\ \A index \in 0..(Len(media.subs) - 1) :
               SubtitlePlaylistFile(index) \in MasterReferences

\* a master playlist on disk that refers to two audio playlists, two subtitle
\* playlists and the video playlist
C21_Witness ==
    /\ <<"master.m3u8">> \in DOMAIN disk
    /\ Cardinality(MasterRenditions("AUDIO")) = 2
    /\ Cardinality(MasterRenditions("SUBTITLES")) = 2
    /\ Cardinality(MasterReferences) = 5


\* the probe of the creating request has failed
ProbeFailed == \E q \in Reqs : resp[q].status = 500

\* C22: after a probe failure for a key, an HLS GET for the same key that
\* waits on the session does not wait forever: it is answered (with the
\* playlist or an error), or the session is created anew (the probe runs
\* again).
C22_RecoversAfterProbeFailure ==
    \A r \in Reqs :
        (ProbeFailed /\ pc[r] = "waitMaster")
            ~> (resp[r].status # 0 \/ probeCount > 1 \/ mkdirCount > 1)

====
